---- MODULE Spec2Model ----
(***************************************************************************)
(* A model of JaderDias/uptime (src/src/main.rs, src/src/model.rs): the    *)
(* collector loop spawned by main, the MTU sweep it runs for every target, *)
(* the per-target mutex-guarded result queues, and the HTTP report         *)
(* (get_rows_for_html_graph) that reads the queues concurrently.           *)
(*                                                                         *)
(* Time is the wall clock counted in units of 1/UnitsPerMinute of a minute *)
(* since an arbitrary origin.  Successive readings of Local::now() are     *)
(* taken to be non-decreasing.                                             *)
(***************************************************************************)
EXTENDS Integers, Sequences, FiniteSets, TLC

\* ---------------------------------------------------------------- bounds

\* Clock units per calendar minute (the resolution of the modelled clock).
UnitsPerMinute == 2
\* Ticks of the collector loop and HTTP requests a behaviour may start, together.
MaxEvents == 3
\* Ticks of the collector under the fair specification.
LiveMaxTicks == 1
\* Ticks of the collector alone over the configurations of the sweep.
StoreMaxTicks == 2
\* Largest MTU size of the configurations the sweep alone is explored on.
ScanMaxSize == 9
\* ------------------------------------------------------ program constants

MTU_STEP == 4
FAILURE_LATENCY == 1000000
RetentionDays == 7

\* Duration::days(7) in clock units.
Retention == RetentionDays * 24 * 60 * UnitsPerMinute

\* Latencies (micros) a successful probe may measure.
Latencies == {1, 2}
\* What one reading of the clock may be ahead of the previous one.
ClockSteps == {0, 1, Retention, Retention + UnitsPerMinute}

\* The configurations (IP_ADDRESSES, MIN_MTU_SIZE, MAX_MTU_SIZE) explored.
Configs ==
    { [ips |-> <<"a">>, min |-> 4, max |-> 8],
      [ips |-> <<"a", "b">>, min |-> 4, max |-> 4] }
\* The configurations the sweep alone is explored on: every range over
\* 0..ScanMaxSize, inverted ones included, and the default 1448..=1504.
ScanConfigs ==
    { [ips |-> <<"a">>, min |-> lo, max |-> hi] : lo \in 0..ScanMaxSize, hi \in 0..ScanMaxSize }
    \cup { [ips |-> <<"a">>, min |-> 1448, max |-> 1504] }

Readers == {"r1", "r2"}

VARIABLES
    ip_addresses,     \* the target list, in document order
    min_mtu_size,
    max_mtu_size,
    results,          \* IpResults: target -> queue of <<timestamp, PingResult>>
    lock,             \* target -> holder of its Mutex, or "free"
    clock,            \* the last reading of the wall clock
    budget,           \* ticks and requests the behaviour may still start
    cpc,              \* where the collector task is
    current_minute,
    ci,               \* index of the collector's current target
    probed,           \* probes of the current sweep: <<size, outcome>>, in order
    ping_result,      \* the sample of the current target in this tick
    tickLog,          \* what the collector did in this tick, in order
    written,          \* target -> every <<timestamp, PingResult>> ever handed to the write section
    rpc,              \* request -> where its handler is
    metric_type,      \* request -> the MetricType of its current get_rows_for_html_graph call
    ri,               \* request -> index of the target its loop is at
    timestamps_set,   \* request -> the BTreeSet of the current call
    seen,             \* request -> target -> the timestamps the current call read from that target
    timestamp,        \* request -> the timestamp of the row being built
    rows              \* request -> the rows of the current call: <<timestamp, values>>

cvars == <<clock, cpc, current_minute, ci, probed, ping_result, tickLog, written>>
cfgvars == <<ip_addresses, min_mtu_size, max_mtu_size>>
rvars == <<rpc, metric_type, ri, timestamps_set, seen, timestamp, rows>>
vars == <<cfgvars, budget, results, lock, cvars, rvars>>

\* ---------------------------------------------------------------- helpers

Min(a, b) == IF a <= b THEN a ELSE b
Max(a, b) == IF a >= b THEN a ELSE b

\* Option<T>
None == [none |-> TRUE]
Some(x) == [some |-> x]
IsSome(o) == o # None
PingResult(m, l) == [mtu |-> m, latency_micros |-> l]

Targets == {ip_addresses[k] : k \in 1..Len(ip_addresses)}

\* ------------------------------------------------------------- MTU sweep

\* (min_mtu_size..=max_mtu_size).rev().step_by(MTU_STEP): the sizes in the
\* order the loop visits them.
RECURSIVE SweepFrom(_, _)
SweepFrom(size, lo) ==
    IF size < lo THEN <<>> ELSE <<size>> \o SweepFrom(size - MTU_STEP, lo)

\* The sizes of (lo..=hi) without .rev(): ascending from lo.
RECURSIVE SweepUpFrom(_, _)
SweepUpFrom(size, hi) ==
    IF size > hi THEN <<>> ELSE <<size>> \o SweepUpFrom(size + MTU_STEP, hi)

SweepSizesAscending(lo, hi) == IF lo > hi THEN <<>> ELSE SweepUpFrom(lo, hi)

\* The sizes of (lo..=hi).step_by(MTU_STEP).rev(): the step taken before the
\* reversal, so the sizes are lo + 4k, the largest first.
SweepSizesStepThenRev(lo, hi) ==
    IF lo > hi THEN <<>> ELSE SweepFrom(hi - ((hi - lo) % MTU_STEP), lo)

SweepSizes(lo, hi) == IF lo > hi THEN <<>> ELSE SweepFrom(hi, lo)

\* A check_connectivity whose send_ping never returns: no outcome at all.
CheckConnectivityHangs == {}

\* check_connectivity: Some(latency_micros) when the ping is answered, else None.
CheckConnectivityOutcomes == {Some(l) : l \in Latencies} \cup {None}

\* Local::now().with_second(0).with_nanosecond(0)
TruncateToMinute(now) == now - (now % UnitsPerMinute)

\* unwrap_or(PingResult { mtu: 0, latency_micros: 1_000_000 })
FailureSample == PingResult(0, FAILURE_LATENCY)

\* ---------------------------------------------------------- target store

\* WriteSection without the same-minute test: every sample is pushed back.
WriteSectionAlwaysAppend(q, minute, sample) == Append(q, <<minute, sample>>)

\* WriteSection with the merge replaced by the incoming sample.
WriteSectionKeepLatest(q, minute, sample) ==
    IF q # <<>> /\ q[Len(q)][1] = minute
    THEN Append(SubSeq(q, 1, Len(q) - 1), <<minute, sample>>)
    ELSE Append(q, <<minute, sample>>)

\* WriteSection with the new bucket pushed to the front of the queue.
WriteSectionPushFront(q, minute, sample) ==
    IF q # <<>> /\ q[Len(q)][1] = minute
    THEN Append(SubSeq(q, 1, Len(q) - 1),
                <<minute, PingResult(Min(q[Len(q)][2].mtu, sample.mtu),
                                     Max(q[Len(q)][2].latency_micros, sample.latency_micros))>>)
    ELSE <<<<minute, sample>>>> \o q

\* The write section of the collector loop: pop_back, then merge or push back.
WriteSection(q, minute, sample) ==
    IF q = <<>>
    THEN <<<<minute, sample>>>>
    ELSE LET last == q[Len(q)]
             rest == SubSeq(q, 1, Len(q) - 1)
         IN  IF last[1] = minute
             THEN Append(rest, <<minute,
                                 PingResult(Min(last[2].mtu, sample.mtu),
                                            Max(last[2].latency_micros, sample.latency_micros))>>)
             ELSE Append(Append(rest, last), <<minute, sample>>)

\* EvictSection with the while loop replaced by an if: at most one entry is popped.
EvictSectionOnce(q, one_week_ago) ==
    IF q # <<>> /\ Head(q)[1] < one_week_ago THEN Tail(q) ELSE q

\* EvictSection with <= in place of <: the entry at the cutoff is popped too.
RECURSIVE EvictSectionInclusive(_, _)
EvictSectionInclusive(q, one_week_ago) ==
    IF q # <<>> /\ Head(q)[1] <= one_week_ago
    THEN EvictSectionInclusive(Tail(q), one_week_ago)
    ELSE q

\* while front().map_or(false, |(timestamp, _)| *timestamp < one_week_ago) { pop_front() }
RECURSIVE EvictSection(_, _)
EvictSection(q, one_week_ago) ==
    IF q # <<>> /\ Head(q)[1] < one_week_ago
    THEN EvictSection(Tail(q), one_week_ago)
    ELSE q

\* The cutoff taken from a clock read one minute after the tick's reading.
OneWeekAgoFromLaterRead(minute) == minute + UnitsPerMinute - Retention

\* The cutoff with the duration added instead of subtracted.
OneWeekAgoInTheFuture(minute) == minute + Retention

\* current_minute - Duration::days(7)
OneWeekAgo(minute) == minute - Retention

\* A lock that never makes a task wait.
CanLockAlways(t) == TRUE

\* tokio::sync::Mutex: lock().await completes only while no task holds the guard.
CanLock(t) == lock[t] = "free"

\* A guard that is kept alive past the end of its block.
ReleasedNever(t) == lock

\* The MutexGuard of target t goes out of scope: the lock is free again.
Released(t) == [lock EXCEPT ![t] = "free"]

\* The eviction of target k right after its write, inside the first for loop.
AfterWriteEvictAtOnce(k) == <<k, "elock">>

\* The collector loop's for loops: after the write of target k comes the sweep
\* of target k + 1, and after the last write the eviction loop, from the first target.
AfterWrite(k) == IF k < Len(ip_addresses) THEN <<k + 1, "probe">> ELSE <<1, "elock">>

\* After the eviction of target k comes that of target k + 1, and after the last the sleep.
AfterEvict(k) == IF k < Len(ip_addresses) THEN <<k + 1, "elock">> ELSE <<1, "idle">>

\* ------------------------------------------------------------------ Init

InitWith(cfgs, n) ==
    /\ \E c \in cfgs :
        /\ ip_addresses = c.ips
        /\ min_mtu_size = c.min
        /\ max_mtu_size = c.max
    /\ results = [t \in Targets |-> <<>>]
    /\ lock = [t \in Targets |-> "free"]
    /\ clock = 0
    /\ budget = n
    /\ cpc = "idle"
    /\ current_minute = 0
    /\ ci = 1
    /\ probed = <<>>
    /\ ping_result = None
    /\ tickLog = <<>>
    /\ written = [t \in Targets |-> {}]
    /\ rpc = [r \in Readers |-> "idle"]
    /\ metric_type = [r \in Readers |-> "Latency"]
    /\ ri = [r \in Readers |-> 1]
    /\ timestamps_set = [r \in Readers |-> {}]
    /\ seen = [r \in Readers |-> [t \in Targets |-> {}]]
    /\ timestamp = [r \in Readers |-> 0]
    /\ rows = [r \in Readers |-> <<>>]

Init == InitWith(Configs, MaxEvents)

\* ------------------------------------------------------------- collector

\* Top of the loop: read the clock, truncate it, start on the first target.
TickStart ==
    /\ cpc = "idle"
    /\ budget > 0
    /\ \E d \in ClockSteps : clock' = clock + d
    /\ budget' = budget - 1
    /\ current_minute' = TruncateToMinute(clock')
    /\ ci' = 1
    /\ probed' = <<>>
    /\ ping_result' = None
    /\ tickLog' = <<>>
    /\ cpc' = "probe"
    /\ UNCHANGED <<cfgvars, results, lock, written, rvars>>

\* One iteration of the sweep's for loop: check_connectivity at the next size.
ProbeStep ==
    /\ cpc = "probe"
    /\ LET sizes == SweepSizes(min_mtu_size, max_mtu_size)
           k == Len(probed) + 1
       IN  /\ k <= Len(sizes)
           /\ \E outcome \in CheckConnectivityOutcomes :
                /\ probed' = Append(probed, <<sizes[k], outcome>>)
                /\ IF outcome = None
                   THEN UNCHANGED <<cpc, ping_result, tickLog>>
                   ELSE /\ ping_result' = PingResult(sizes[k], outcome.some)
                        /\ tickLog' = Append(tickLog, <<"sweep", ip_addresses[ci]>>)
                        /\ cpc' = "wlock"
    /\ UNCHANGED <<cfgvars, results, lock, budget, clock, current_minute, ci, written, rvars>>

\* The sweep's loop ran out of sizes: None, which the caller maps to the failure sample.
SweepExhausted ==
    /\ cpc = "probe"
    /\ Len(probed) = Len(SweepSizes(min_mtu_size, max_mtu_size))
    /\ ping_result' = FailureSample
    /\ tickLog' = Append(tickLog, <<"sweep", ip_addresses[ci]>>)
    /\ cpc' = "wlock"
    /\ UNCHANGED <<cfgvars, results, lock, budget, clock, current_minute, ci, probed,
                   written, rvars>>

\* results_clone.get(ip_address).unwrap().lock().await
WriteLock ==
    /\ cpc = "wlock"
    /\ CanLock(ip_addresses[ci])
    /\ lock' = [lock EXCEPT ![ip_addresses[ci]] = "collector"]
    /\ cpc' = "write"
    /\ UNCHANGED <<cfgvars, results, budget, clock, current_minute, ci, probed, ping_result,
                   tickLog, written, rvars>>

\* Coalesce or append under the lock, print, drop the guard, go to the next target.
Write ==
    /\ cpc = "write"
    /\ LET t == ip_addresses[ci] IN
        /\ results' = [results EXCEPT ![t] = WriteSection(@, current_minute, ping_result)]
        /\ written' = [written EXCEPT ![t] = @ \cup {<<current_minute, ping_result>>}]
        /\ lock' = Released(t)
        /\ tickLog' = Append(tickLog, <<"write", t>>)
    /\ probed' = <<>>
    /\ ci' = AfterWrite(ci)[1]
    /\ cpc' = AfterWrite(ci)[2]
    /\ UNCHANGED <<cfgvars, budget, clock, current_minute, ping_result, rvars>>

\* results_for_ip.lock().await in the eviction loop
EvictLock ==
    /\ cpc = "elock"
    /\ CanLock(ip_addresses[ci])
    /\ lock' = [lock EXCEPT ![ip_addresses[ci]] = "collector"]
    /\ cpc' = "evict"
    /\ UNCHANGED <<cfgvars, results, budget, clock, current_minute, ci, probed, ping_result,
                   tickLog, written, rvars>>

\* Pop stale entries off the front under the lock, drop the guard; after the
\* last target, sleep.
Evict ==
    /\ cpc = "evict"
    /\ LET t == ip_addresses[ci] IN
        /\ results' = [results EXCEPT ![t] = EvictSection(@, OneWeekAgo(current_minute))]
        /\ lock' = Released(t)
        /\ tickLog' = Append(tickLog, <<"evict", t>>)
    /\ ci' = AfterEvict(ci)[1]
    /\ cpc' = AfterEvict(ci)[2]
    /\ UNCHANGED <<cfgvars, budget, clock, current_minute, probed, ping_result, written,
                   rvars>>

CollectorNext ==
    \/ TickStart
    \/ ProbeStep
    \/ SweepExhausted
    \/ WriteLock
    \/ Write
    \/ EvictLock
    \/ Evict

\* ------------------------------------------------------------ HTTP report

\* The timestamps of a queue: for &(timestamp, _) in timestamps.iter()
TimestampsOf(q) == {q[k][1] : k \in 1..Len(q)}

\* .iter().find(|&&(ts, _)| ts == timestamp).map_or(0.0, |(_, ping_result)| ...)
FindValue(q, ts, metric) ==
    LET hits == {k \in 1..Len(q) : q[k][1] = ts}
    IN  IF hits = {}
        THEN 0
        ELSE LET first == CHOOSE k \in hits : \A j \in hits : k <= j
             IN  IF metric = "Mtu" THEN q[first][2].mtu ELSE q[first][2].latency_micros

\* The smallest element of a non-empty set of timestamps (BTreeSet iteration order).
SetMin(S) == CHOOSE x \in S : \A y \in S : x <= y

\* A call of get_rows_for_html_graph starts: empty rows, empty timestamps_set.
BeginCall(r, metric) ==
    /\ metric_type' = [metric_type EXCEPT ![r] = metric]
    /\ timestamps_set' = [timestamps_set EXCEPT ![r] = {}]
    /\ seen' = [seen EXCEPT ![r] = [t \in Targets |-> {}]]
    /\ rows' = [rows EXCEPT ![r] = <<>>]
    /\ ri' = [ri EXCEPT ![r] = 1]
    /\ rpc' = [rpc EXCEPT ![r] = "c_wait"]
    /\ timestamp' = [timestamp EXCEPT ![r] = 0]

\* A request arrives: the handler calls get_rows_for_html_graph for the latency chart.
StartRequest(r) ==
    /\ rpc[r] = "idle"
    /\ budget > 0
    /\ budget' = budget - 1
    /\ BeginCall(r, "Latency")
    /\ UNCHANGED <<cfgvars, results, lock, cvars>>

\* First loop: results.get(ip).unwrap().lock().await
CollectLock(r) ==
    /\ rpc[r] = "c_wait"
    /\ CanLock(ip_addresses[ri[r]])
    /\ lock' = [lock EXCEPT ![ip_addresses[ri[r]]] = r]
    /\ rpc' = [rpc EXCEPT ![r] = "c_read"]
    /\ UNCHANGED <<cfgvars, budget, results, cvars, metric_type, ri, timestamps_set,
                   seen, timestamp, rows>>

\* A first loop that drains the target's queue instead of iterating over it.
CollectDraining(r) ==
    /\ rpc[r] = "c_read"
    /\ LET t == ip_addresses[ri[r]]
       IN  /\ results' = [results EXCEPT ![t] = <<>>]
           /\ lock' = Released(t)
    /\ rpc' = [rpc EXCEPT ![r] = "return"]
    /\ UNCHANGED <<cfgvars, budget, cvars, metric_type, ri, timestamps_set, seen,
                   timestamp, rows>>

\* First loop: insert the target's timestamps, drop the guard; after the last
\* target, start the first row, or return when there is no timestamp.
Collect(r) ==
    /\ rpc[r] = "c_read"
    /\ LET t == ip_addresses[ri[r]]
           set == timestamps_set[r] \cup TimestampsOf(results[t])
       IN  /\ lock' = Released(t)
           /\ IF ri[r] < Len(ip_addresses)
              THEN /\ timestamps_set' = [timestamps_set EXCEPT ![r] = set]
                   /\ seen' = [seen EXCEPT ![r][t] = TimestampsOf(results[t])]
                   /\ ri' = [ri EXCEPT ![r] = @ + 1]
                   /\ rpc' = [rpc EXCEPT ![r] = "c_wait"]
                   /\ UNCHANGED <<metric_type, timestamp, rows>>
              ELSE IF set = {}
                   THEN /\ rpc' = [rpc EXCEPT ![r] = "return"]
                        /\ UNCHANGED <<metric_type, ri, timestamps_set, seen, timestamp, rows>>
                   ELSE /\ timestamps_set' = [timestamps_set EXCEPT ![r] = set]
                        /\ seen' = [seen EXCEPT ![r][t] = TimestampsOf(results[t])]
                        /\ timestamp' = [timestamp EXCEPT ![r] = SetMin(set)]
                        /\ rows' = [rows EXCEPT ![r] = <<<<SetMin(set), <<>>>>>>]
                        /\ ri' = [ri EXCEPT ![r] = 1]
                        /\ rpc' = [rpc EXCEPT ![r] = "f_wait"]
                        /\ UNCHANGED metric_type
    /\ UNCHANGED <<cfgvars, budget, results, cvars>>

\* Second loop: results.get(ip).unwrap().lock().await
FindLock(r) ==
    /\ rpc[r] = "f_wait"
    /\ CanLock(ip_addresses[ri[r]])
    /\ lock' = [lock EXCEPT ![ip_addresses[ri[r]]] = r]
    /\ rpc' = [rpc EXCEPT ![r] = "f_read"]
    /\ UNCHANGED <<cfgvars, budget, results, cvars, metric_type, ri, timestamps_set,
                   seen, timestamp, rows>>

\* Second loop: look the row's timestamp up in the target's queue, drop the
\* guard, push the value; after the last target go to the next timestamp, or return.
Find(r) ==
    /\ rpc[r] = "f_read"
    /\ LET t == ip_addresses[ri[r]]
           value == FindValue(results[t], timestamp[r], metric_type[r])
           n == Len(rows[r])
           rows_ == [rows[r] EXCEPT ![n] = <<@[1], Append(@[2], value)>>]
           later == {ts \in timestamps_set[r] : ts > timestamp[r]}
       IN  /\ lock' = Released(t)
           /\ IF ri[r] < Len(ip_addresses)
              THEN /\ rows' = [rows EXCEPT ![r] = rows_]
                   /\ ri' = [ri EXCEPT ![r] = @ + 1]
                   /\ rpc' = [rpc EXCEPT ![r] = "f_wait"]
                   /\ UNCHANGED <<metric_type, timestamps_set, seen, timestamp>>
              ELSE IF later = {}
                   THEN /\ rows' = [rows EXCEPT ![r] = rows_]
                        /\ rpc' = [rpc EXCEPT ![r] = "return"]
                        /\ UNCHANGED <<metric_type, ri, timestamps_set, seen, timestamp>>
                   ELSE /\ rows' = [rows EXCEPT ![r] = Append(rows_, <<SetMin(later), <<>>>>)]
                        /\ timestamp' = [timestamp EXCEPT ![r] = SetMin(later)]
                        /\ ri' = [ri EXCEPT ![r] = 1]
                        /\ rpc' = [rpc EXCEPT ![r] = "f_wait"]
                        /\ UNCHANGED <<metric_type, timestamps_set, seen>>
    /\ UNCHANGED <<cfgvars, budget, results, cvars>>

\* get_rows_for_html_graph returns rows.join: the handler calls it again for the
\* MTU chart when min_mtu_size < max_mtu_size, and otherwise replies, dropping its locals.
Return(r) ==
    /\ rpc[r] = "return"
    /\ IF metric_type[r] = "Latency" /\ min_mtu_size < max_mtu_size
       THEN BeginCall(r, "Mtu")
       ELSE /\ rpc' = [rpc EXCEPT ![r] = "idle"]
            /\ metric_type' = [metric_type EXCEPT ![r] = "Latency"]
            /\ ri' = [ri EXCEPT ![r] = 1]
            /\ timestamps_set' = [timestamps_set EXCEPT ![r] = {}]
            /\ seen' = [seen EXCEPT ![r] = [t \in Targets |-> {}]]
            /\ timestamp' = [timestamp EXCEPT ![r] = 0]
            /\ rows' = [rows EXCEPT ![r] = <<>>]
    /\ UNCHANGED <<cfgvars, budget, results, lock, cvars>>

ReaderNext ==
    \E r \in Readers :
        \/ StartRequest(r)
        \/ CollectLock(r)
        \/ Collect(r)
        \/ FindLock(r)
        \/ Find(r)
        \/ Return(r)

Next == CollectorNext \/ ReaderNext

\* The collector and the HTTP server together.
Spec == Init /\ [][Next]_vars

\* The sweep alone, over every configuration of ScanConfigs.
InitScan == InitWith(ScanConfigs, 1)
ScanNext == TickStart \/ ProbeStep \/ SweepExhausted
SpecScan == InitScan /\ [][ScanNext]_vars

\* The collector alone, over every configuration of ScanConfigs.
InitStore == InitWith(ScanConfigs, StoreMaxTicks)
SpecStore == InitStore /\ [][CollectorNext]_vars

\* ------------------------------------------------- fair specification

\* A request arrives at any time: the server accepts requests without limit.
ServeRequest(r) ==
    /\ rpc[r] = "idle"
    /\ BeginCall(r, "Latency")
    /\ UNCHANGED <<cfgvars, budget, results, lock, cvars>>

ReaderNextLive ==
    \E r \in Readers :
        \/ ServeRequest(r)
        \/ CollectLock(r)
        \/ Collect(r)
        \/ FindLock(r)
        \/ Find(r)
        \/ Return(r)

InitLive == InitWith(Configs, LiveMaxTicks)
NextLive == CollectorNext \/ ReaderNextLive

\* The runtime keeps polling every task that can run, every probe returns after
\* at most its timeout, and tokio's Mutex hands the lock to its waiters in
\* arrival order, so a task that keeps waiting for a lock that is released again
\* and again does acquire it. Requests need not arrive.
LiveFairness ==
    /\ WF_vars(TickStart)
    /\ WF_vars(ProbeStep)
    /\ WF_vars(SweepExhausted)
    /\ WF_vars(Write)
    /\ WF_vars(Evict)
    /\ SF_vars(WriteLock \/ EvictLock)
    /\ \A r \in Readers :
        /\ WF_vars(Collect(r) \/ Find(r) \/ Return(r))
        /\ SF_vars(CollectLock(r) \/ FindLock(r))

\* The collector for LiveMaxTicks ticks next to a server that never stops
\* accepting requests, under fair scheduling.
SpecLive == InitLive /\ [][NextLive]_vars /\ LiveFairness

\* ================================================================ claims

Range(f) == {f[k] : k \in 1..Len(f)}
SetMinOf(S) == CHOOSE x \in S : \A y \in S : x <= y
SetMaxOf(S) == CHOOSE x \in S : \A y \in S : x >= y
SameMinute(a, b) == a \div UnitsPerMinute = b \div UnitsPerMinute

\* The eviction section of the current tick has run for target t.
EvictedThisTick(t) == <<"evict", t>> \in Range(tickLog)
\* The write section of the current tick has run for target t.
WrittenThisTick(t) == <<"write", t>> \in Range(tickLog)

\* The collector's step that runs the write section of its current target.
WriteStep == cpc = "write" /\ cpc' # "write"

\* No queue holds two entries of the same calendar minute.
NoDuplicateMinutes ==
    \A t \in Targets : \A j, k \in 1..Len(results[t]) :
        SameMinute(results[t][j][1], results[t][k][1]) => j = k

InputsOfMinute(t, ts) == {w[2] : w \in {x \in written[t] : SameMinute(x[1], ts)}}

NoneOlderThan(t, cutoff) == \A k \in 1..Len(results[t]) : results[t][k][1] >= cutoff

SweepDone == cpc \in {"wlock", "write"}
AllProbesFailed == \A k \in 1..Len(probed) : probed[k][2] = None

\* C5 (MTU scan short-circuit): the sweep probes sizes in strictly descending
\* order starting at max_mtu_size; a probe that succeeds is the last probe of the
\* sweep, and the sweep returns that probe's size with that probe's latency; so
\* every larger size of the sweep failed and no smaller size is probed.
C5_ScanShortCircuit ==
    \A k \in 1..Len(probed) :
        /\ k = 1 => probed[k][1] = max_mtu_size
        /\ k > 1 => probed[k][1] < probed[k - 1][1]
        /\ k < Len(probed) => probed[k][2] = None
        /\ IsSome(probed[k][2]) =>
              /\ SweepDone
              /\ ping_result = PingResult(probed[k][1], probed[k][2].some)

\* Range 1448..=1504 with only 1448 succeeding: 1504, 1500, ..., 1452 failed,
\* 1448 succeeded and is returned.
C5_Witness ==
    /\ min_mtu_size = 1448
    /\ max_mtu_size = 1504
    /\ SweepDone
    /\ Len(probed) = 15
    /\ \A k \in 1..15 : probed[k][1] = 1504 - 4 * (k - 1)
    /\ \A k \in 1..14 : probed[k][2] = None
    /\ ping_result.mtu = 1448

\* C6 as claimed (scan coverage): for every min_mtu_size <= max_mtu_size a sweep
\* whose probes all fail has probed from max_mtu_size down to min_mtu_size
\* inclusive.
C6_ScanReachesMinSize ==
    (SweepDone /\ AllProbesFailed /\ min_mtu_size <= max_mtu_size)
        => /\ probed # <<>>
           /\ probed[1][1] = max_mtu_size
           /\ probed[Len(probed)][1] = min_mtu_size

\* C6 as amended (scan coverage): the k-th probe of a sweep is at size
\* max_mtu_size - 4 (k - 1) and no probe is below min_mtu_size; a sweep whose
\* probes all fail has probed every such size that is at least min_mtu_size
\* (min_mtu_size itself only when max_mtu_size - min_mtu_size is a multiple of 4);
\* the sweep's result is the failure sample exactly when none of its probes
\* succeeded; and with min_mtu_size > max_mtu_size no probe is issued and the
\* result is the failure sample.
C6_ScanCoverage ==
    /\ \A k \in 1..Len(probed) :
          /\ probed[k][1] = max_mtu_size - MTU_STEP * (k - 1)
          /\ probed[k][1] >= min_mtu_size
    /\ (SweepDone /\ AllProbesFailed) =>
          /\ max_mtu_size - MTU_STEP * Len(probed) < min_mtu_size
          /\ ping_result = FailureSample
    /\ (SweepDone /\ ~AllProbesFailed) =>
          \E k \in 1..Len(probed) :
              /\ IsSome(probed[k][2])
              /\ ping_result = PingResult(probed[k][1], probed[k][2].some)
    /\ min_mtu_size > max_mtu_size => probed = <<>>
    /\ (min_mtu_size <= max_mtu_size /\ SweepDone) => probed # <<>>

\* A sweep over 2..=9 in which every probe failed: sizes 9 and 5 were probed,
\* size 2 was not, and the result is the failure sample.
C6_Witness ==
    /\ min_mtu_size = 2
    /\ max_mtu_size = 9
    /\ SweepDone
    /\ probed = <<<<9, None>>, <<5, None>>>>
    /\ ping_result = FailureSample

\* C7 (failure sentinel): for every range with min_mtu_size <= max_mtu_size, the
\* sample of a sweep has mtu 0 if and only if every probe of the sweep failed,
\* and a non-zero mtu is the size of a probe of the sweep that succeeded.
C7_FailureSentinel ==
    (SweepDone /\ min_mtu_size <= max_mtu_size) =>
        /\ ping_result.mtu = 0 <=> AllProbesFailed
        /\ ping_result.mtu # 0 =>
              \E k \in 1..Len(probed) :
                  probed[k][1] = ping_result.mtu /\ IsSome(probed[k][2])

\* C8 (snapshot consistency): in the rows a request builds for the latency chart,
\* a timestamp the call read from a target's queue is never rendered for that
\* target with the "no data" value 0.
C8_SnapshotConsistency ==
    \A r \in Readers :
        metric_type[r] = "Latency" =>
            \A k \in 1..Len(rows[r]) : \A j \in 1..Len(rows[r][k][2]) :
                rows[r][k][1] \in seen[r][ip_addresses[j]] => rows[r][k][2][j] # 0

\* Who is inside target t's section, and who waits for it.
CollectorInside(t) == cpc \in {"write", "evict"} /\ ip_addresses[ci] = t
ReaderInside(r, t) == rpc[r] \in {"c_read", "f_read"} /\ ip_addresses[ri[r]] = t
ReaderWaiting(r, t) == rpc[r] \in {"c_wait", "f_wait"} /\ ip_addresses[ri[r]] = t
Inside(t) ==
    {r \in Readers : ReaderInside(r, t)} \cup (IF CollectorInside(t) THEN {"collector"} ELSE {})
ReaderCanEnter(r) == ENABLED (CollectLock(r) \/ FindLock(r))

\* C9 as claimed (readers share a section): a request waiting for a target's
\* section is admitted whenever the collector is not inside it, other requests
\* being inside or not.
C9_ReadersShareSection ==
    \A r \in Readers : \A t \in Targets :
        (ReaderWaiting(r, t) /\ ~CollectorInside(t)) => ReaderCanEnter(r)

\* C9 as amended (mutual exclusion per target): at most one task, request or
\* collector, is inside a target's section at a time, and the lock names it; a
\* request waiting for a target's section is admitted whenever no task is inside
\* that section, whoever is inside the sections of other targets.
C9_MutualExclusion ==
    \A t \in Targets :
        /\ Cardinality(Inside(t)) <= 1
        /\ Inside(t) = IF lock[t] = "free" THEN {} ELSE {lock[t]}
        /\ \A r \in Readers : (ReaderWaiting(r, t) /\ Inside(t) = {}) => ReaderCanEnter(r)

\* One request is inside a target's section, the other waits for the same
\* section and cannot enter, while the collector is outside it.
C9_Witness ==
    \E r1, r2 \in Readers : \E t \in Targets :
        /\ r1 # r2
        /\ ReaderInside(r1, t)
        /\ ReaderWaiting(r2, t)
        /\ ~CollectorInside(t)
        /\ ~ReaderCanEnter(r2)

\* What a whole tick does, in order: sweep and write of every target in list
\* order, then the eviction of every target in list order.
ExpectedTickLog ==
    LET n == Len(ip_addresses)
    IN  [k \in 1..(3 * n) |->
            IF k <= 2 * n
            THEN <<IF k % 2 = 1 THEN "sweep" ELSE "write", ip_addresses[(k + 1) \div 2]>>
            ELSE <<"evict", ip_addresses[k - 2 * n]>>]

\* C10 (tick phase order): what the collector has done in the current tick is
\* always a prefix of: sweep and write of each target in list order, one of each
\* per target, then the eviction of each target in list order; the collector is
\* in the eviction loop only after every target was swept and written, and it
\* sleeps only after the whole sequence.
C10_TickPhaseOrder ==
    /\ Len(tickLog) <= Len(ExpectedTickLog)
    /\ tickLog = SubSeq(ExpectedTickLog, 1, Len(tickLog))
    /\ cpc \in {"elock", "evict"} => Len(tickLog) >= 2 * Len(ip_addresses)
    /\ cpc \in {"probe", "wlock", "write"} => Len(tickLog) < 2 * Len(ip_addresses)
    /\ (cpc = "idle" /\ tickLog # <<>>) => tickLog = ExpectedTickLog

\* The collector sleeps after a whole tick over two targets.
C10_Witness ==
    /\ cpc = "idle"
    /\ Len(ip_addresses) = 2
    /\ tickLog = <<<<"sweep", "a">>, <<"write", "a">>, <<"sweep", "b">>, <<"write", "b">>,
                   <<"evict", "a">>, <<"evict", "b">>>>

\* The collector's step that runs the eviction section of its current target.
EvictStep == cpc = "evict" /\ cpc' # "evict"

\* The timestamp of the last entry of target t's queue, None for an empty queue.
LastTimestamp(t) ==
    IF results[t] = <<>> THEN None ELSE Some(results[t][Len(results[t])][1])

\* C11 (one clock reading per tick): every target written in the current tick
\* has, as its last entry, an entry stamped with the tick's clock reading
\* truncated to the minute, the same for all targets; every eviction step keeps
\* exactly the entries that are not older than that same truncated reading minus
\* the retention; and while the collector sleeps between ticks all queues have
\* the same last timestamp.
C11_OneClockReadingPerTick ==
    /\ [](\A t \in Targets :
            WrittenThisTick(t) => LastTimestamp(t) = Some(TruncateToMinute(clock)))
    /\ [](cpc = "idle" => \A t, u \in Targets : LastTimestamp(t) = LastTimestamp(u))
    /\ [][EvictStep =>
            LET t == ip_addresses[ci]
                cutoff == TruncateToMinute(clock) - Retention
                Keep(e) == e[1] >= cutoff
            IN  results'[t] = SelectSeq(results[t], Keep)]_vars

\* The collector sleeps after a tick over two targets that stamped both queues
\* with the tick's minute and evicted from both an entry older than the cutoff
\* of that minute.
C11_Witness ==
    /\ cpc = "idle"
    /\ Len(ip_addresses) = 2
    /\ \A t \in Targets :
        /\ LastTimestamp(t) = Some(TruncateToMinute(clock))
        /\ EvictedThisTick(t)
        /\ \E w \in written[t] : w[1] < TruncateToMinute(clock) - Retention

\* The collector is in the sweep of its current target: a probe is in flight or
\* about to be sent.
Probing == cpc = "probe"

\* C12 as claimed (no lock across probing): while the collector probes it holds
\* no lock and every request waiting for a target's lock can acquire it.
C12_ReaderAlwaysAdmittedWhileProbing ==
    Probing =>
        /\ \A t \in Targets : lock[t] # "collector"
        /\ \A r \in Readers : \A t \in Targets : ReaderWaiting(r, t) => ReaderCanEnter(r)

\* C12 (no lock across probing): while the collector probes it holds no
\* target's lock, so a request waiting for any target's lock, the probed one
\* included, acquires it unless another request holds that lock; the collector
\* never holds two locks; and the collector waiting to write target A acquires
\* A's lock whenever no request holds A's lock, whatever other locks requests hold.
C12_NoLockAcrossProbing ==
    /\ Probing =>
        /\ \A t \in Targets : lock[t] # "collector"
        /\ \A r \in Readers : \A t \in Targets :
            (ReaderWaiting(r, t) /\ \A r2 \in Readers : ~ReaderInside(r2, t))
                => ReaderCanEnter(r)
    /\ Cardinality({t \in Targets : lock[t] = "collector"}) <= 1
    /\ (cpc = "wlock" /\ \A r \in Readers : ~ReaderInside(r, ip_addresses[ci]))
            => ENABLED WriteLock

\* In the middle of a sweep one request is about to acquire the lock of the
\* target being probed while the other request holds another target's lock.
C12_Witness ==
    /\ Probing
    /\ probed # <<>>
    /\ \E r1, r2 \in Readers : \E t \in Targets :
        /\ t # ip_addresses[ci]
        /\ ReaderWaiting(r1, ip_addresses[ci])
        /\ ReaderCanEnter(r1)
        /\ ReaderInside(r2, t)

\* The collector is inside a tick: it has read the clock and does not sleep yet.
InTick == cpc # "idle"

\* The collector sleeps after a tick that wrote and evicted every target.
TickCompleted ==
    /\ cpc = "idle"
    /\ tickLog = ExpectedTickLog
    /\ \A t \in Targets : LastTimestamp(t) = Some(current_minute)

\* C13 (tick completion): under fair scheduling, with every probe returning and
\* every request releasing the locks it takes, every tick that has started leads
\* to the collector sleeping after the write and the eviction of every target,
\* whatever the probes answer; the write of one target leaves every other
\* target's queue unchanged, and the write of a target whose sweep failed puts
\* the failure sample into that target's last entry.
C13_TickCompletion ==
    /\ InTick ~> TickCompleted
    /\ [][WriteStep =>
            /\ \A u \in Targets \ {ip_addresses[ci]} : results'[u] = results[u]
            /\ ping_result = FailureSample =>
                LET q2 == results'[ip_addresses[ci]]
                IN  /\ q2 # <<>>
                    /\ q2[Len(q2)][1] = current_minute
                    /\ q2[Len(q2)][2].mtu = 0
                    /\ q2[Len(q2)][2].latency_micros >= FAILURE_LATENCY]_vars

\* A tick over two targets has completed with a failure sample for one target
\* and the sample of an answered probe for the other.
C13_Witness ==
    /\ TickCompleted
    /\ \E t, u \in Targets :
        /\ results[t][Len(results[t])][2] = FailureSample
        /\ results[u][Len(results[u])][2].mtu > 0

\* C14 (single writer): a step that changes a target's queue is a step of the
\* collector inside that target's section, holding its lock, and changes no
\* request's state; every step of a request, from its arrival to its reply,
\* leaves every target's queue unchanged.
C14_SingleWriter ==
    /\ [][\A t \in Targets :
            results'[t] # results[t] =>
                /\ CollectorInside(t)
                /\ lock[t] = "collector"
                /\ rvars' = rvars]_vars
    /\ [][rvars' # rvars => results' = results]_vars

\* A request is about to reply after both of its calls went over non-empty
\* queues, which still hold everything the collector wrote.
C14_Witness ==
    \E r \in Readers :
        /\ rpc[r] = "return"
        /\ metric_type[r] = "Mtu"
        /\ rows[r] # <<>>
        /\ \A t \in Targets :
            /\ results[t] # <<>>
            /\ Len(results[t]) = Cardinality({w[1] : w \in written[t]})

\* q2 is q without its first n entries.
DropsFront(q, q2, n) == n \in 0..Len(q) /\ q2 = SubSeq(q, n + 1, Len(q))

\* q2 is q with nothing but its last entry replaced, or with one entry more.
ChangesBackOnly(q, q2) ==
    /\ q2 # <<>>
    /\ Len(q2) \in {Len(q), Len(q) + 1}
    /\ SubSeq(q2, 1, Len(q2) - 1) = SubSeq(q, 1, Len(q2) - 1)

Tasks == Readers \cup {"collector"}
LocksHeldBy(x) == {t \in Targets : lock[t] = x}
CollectorWaiting == cpc \in {"wlock", "elock"}
ReaderIsWaiting(r) == rpc[r] \in {"c_wait", "f_wait"}
ReaderIsInside(r) == rpc[r] \in {"c_read", "f_read"}

\* No task holds a lock while it waits for one, and no task holds two.
NoHoldAndWait ==
    /\ \A x \in Tasks : Cardinality(LocksHeldBy(x)) <= 1
    /\ CollectorWaiting => LocksHeldBy("collector") = {}
    /\ \A r \in Readers : ReaderIsWaiting(r) => LocksHeldBy(r) = {}

\* The holder of every held lock can take the step that releases it, and a
\* task waiting for a free lock can take it.
NoStuckLock ==
    /\ \A t \in Targets :
        /\ lock[t] = "collector" => ENABLED (Write \/ Evict)
        /\ \A r \in Readers : lock[t] = r => ENABLED (Collect(r) \/ Find(r))
    /\ (CollectorWaiting /\ lock[ip_addresses[ci]] = "free")
            => ENABLED (WriteLock \/ EvictLock)
    /\ \A r \in Readers :
        (ReaderIsWaiting(r) /\ lock[ip_addresses[ri[r]]] = "free") => ReaderCanEnter(r)

\* C18 (deadlock freedom): no task ever holds a lock while waiting for another
\* and none holds two; in every state every held lock can be released by its
\* holder and every free lock can be taken by a task waiting for it; and under
\* fair scheduling the collector and every request, once waiting for a lock,
\* eventually hold it.
C18_DeadlockFreedom ==
    /\ [](NoHoldAndWait /\ NoStuckLock)
    /\ CollectorWaiting ~> (cpc \in {"write", "evict"})
    /\ \A r \in Readers : ReaderIsWaiting(r) ~> ReaderIsInside(r)

\* The collector is inside a target's section while both requests wait for
\* that same target's lock.
C18_Witness ==
    \E t \in Targets :
        /\ CollectorInside(t)
        /\ lock[t] = "collector"
        /\ \A r \in Readers : ReaderWaiting(r, t)

\* C19 (never empty again): once the collector has written to a target, that
\* target's queue is non-empty in every later state, in particular whenever a
\* request is inside the target's section; and an eviction step leaves the
\* queue's last entry, the one written in the same tick, in place.
C19_NeverEmptyAgain ==
    /\ [](\A t \in Targets : written[t] # {} => results[t] # <<>>)
    /\ [](\A t \in Targets : \A r \in Readers :
            (ReaderInside(r, t) /\ written[t] # {}) => TimestampsOf(results[t]) # {})
    /\ [][EvictStep =>
            LET q == results[ip_addresses[ci]]
                q2 == results'[ip_addresses[ci]]
            IN  /\ q # <<>>
                /\ q2 # <<>>
                /\ q2[Len(q2)] = q[Len(q)]
                /\ q2[Len(q2)][1] = current_minute]_vars

\* A request is inside the section of a target whose queue holds, after the
\* eviction of every older entry, just the entry of the current tick.
C19_Witness ==
    \E r \in Readers : \E t \in Targets :
        /\ ReaderInside(r, t)
        /\ EvictedThisTick(t)
        /\ Len(results[t]) = 1
        /\ results[t][1][1] = current_minute
        /\ \E w \in written[t] : w[1] < current_minute - Retention

\* The sample is the failure sentinel or an answered size of the sweep over
\* min_mtu_size..max_mtu_size, and an mtu of 0 comes with the failure latency.
InValueDomain(sample) ==
    /\ \/ sample.mtu = 0
       \/ /\ min_mtu_size <= sample.mtu
          /\ sample.mtu <= max_mtu_size
          /\ (max_mtu_size - sample.mtu) % MTU_STEP = 0
    /\ sample.mtu = 0 => sample.latency_micros >= FAILURE_LATENCY

\* C20 as claimed (stored value domain): every stored sample, merged or not,
\* has an mtu that is 0 or max_mtu_size - 4k within min_mtu_size..max_mtu_size,
\* and a latency of at least 1,000,000 micros whenever its mtu is 0.
C20_StoredValueDomain ==
    \A t \in Targets : \A k \in 1..Len(results[t]) : InValueDomain(results[t][k][2])

====
